---- MODULE Spec2Model ----
(***************************************************************************)
(* minecraft-watcher: the status resolver (server_util.rs), the inactivity *)
(* tick (main.rs), and the connection handlers (status_reporter.rs).       *)
(***************************************************************************)
EXTENDS Integers, Sequences, FiniteSets, Bags, TLC

(* ------------------------------------------------------------------ *)
(* Bounds                                                             *)
(* ------------------------------------------------------------------ *)

\* inactivity timeout in ticks (main.rs:28 sets 20; the model runs it scaled down)
MINUTES_TO_WAIT_BEFORE_SHUTTING_DOWN == 3

\* number of tick futures the scheduler may have in flight at once
MaxTicks == 2

\* largest players.online value a status response carries in the model
MaxOnline == 2

\* number of connections that may wait in the listener's backlog
MaxWaiting == 1

(* ------------------------------------------------------------------ *)
(* types.rs                                                           *)
(* ------------------------------------------------------------------ *)

ServerStatus == {"Offline", "StartingEC2", "StartingUp", "Online", "ShuttingDown", "Unknown"}

get_motd(s) ==
    CASE s = "Offline"      -> "&4Offline &f&o(join to start server up)"
      [] s = "StartingEC2"  -> "&6Starting EC2 instance..."
      [] s = "StartingUp"   -> "&6Starting minecraft server..."
      [] s = "Online"       -> "&2Online"
      [] s = "ShuttingDown" -> "&cShutting down..."
      [] OTHER              -> "Unknown"

(* ------------------------------------------------------------------ *)
(* server_util.rs: what the outside world can answer to one resolution *)
(* ------------------------------------------------------------------ *)

\* instance lifecycle names of the EC2 API
InstanceStateName == {"stopped", "stopping", "pending", "shutting-down", "running", "terminated"}

\* describe_instances: transport error, no reservation/instance, no state
\* field, or an instance in one of the lifecycle states
DescribeOutcome == {"err", "noinstance", "nostate"} \cup InstanceStateName

\* describe_spot_instance_requests: transport error, field absent (None),
\* Some(empty list), first request without status/code, or a status code
SpotOutcome == {"err", "none", "empty", "nocode", "marked-for-stop", "fulfilled"}

\* ping_server: TCP connect refused, craft connection fails, a write or the
\* read fails, the peer closes (None), a pong arrives, another packet arrives
PingOutcome == {"refused", "noconn", "hs_write_err", "ping_write_err", "read_err",
                "closed", "pong", "other"}

\* get_player_count: the same failures, a packet that is not a status
\* response, or a status response carrying players.online (an i32)
CountFailure == {"refused", "noconn", "hs_write_err", "req_write_err", "read_err",
                 "closed", "bad_reply"}

CountOutcome == [kind : CountFailure, online : {0}]
                \cup [kind : {"response"}, online : (-1)..MaxOnline]

NoCount == [kind |-> "refused", online |-> 0]

\* every combination of answers one resolution can meet
ResolveInputs == [describe : DescribeOutcome, public_ip : BOOLEAN, spot : SpotOutcome,
                  ping : PingOutcome, count : CountOutcome]

(* ------------------------------------------------------------------ *)
(* server_util.rs: the resolver                                       *)
(* ------------------------------------------------------------------ *)

\* Result<Instance>: Err on transport error or when no instance is listed
get_ec2_instance(in) ==
    IF in.describe \in {"err", "noinstance"} THEN [ok |-> FALSE] ELSE [ok |-> TRUE]

\* the fixed table from lifecycle state to ServerStatus
MapInstanceState(state) ==
    CASE state = "stopped"       -> "Offline"
      [] state = "stopping"      -> "ShuttingDown"
      [] state = "pending"       -> "StartingEC2"
      [] state = "shutting-down" -> "ShuttingDown"
      [] OTHER                   -> "Unknown"

\* mutant of ping_server: a failed protocol connection is reported like a
\* refused TCP connect
ping_server_NoConnAsRefused(in) ==
    CASE in.ping \in {"refused", "noconn"} -> [ok |-> TRUE, status |-> "StartingEC2"]
      [] in.ping \in {"hs_write_err", "ping_write_err", "read_err"}
                             -> [ok |-> FALSE, status |-> "Unknown"]
      [] in.ping = "pong"    -> [ok |-> TRUE, status |-> "Online"]
      [] OTHER               -> [ok |-> TRUE, status |-> "Unknown"]

\* Result<ServerStatus> of the live ping
ping_server(in) ==
    CASE in.ping = "refused" -> [ok |-> TRUE, status |-> "StartingEC2"]
      [] in.ping = "noconn"  -> [ok |-> TRUE, status |-> "StartingUp"]
      [] in.ping \in {"hs_write_err", "ping_write_err", "read_err"}
                             -> [ok |-> FALSE, status |-> "Unknown"]
      [] in.ping = "pong"    -> [ok |-> TRUE, status |-> "Online"]
      [] OTHER               -> [ok |-> TRUE, status |-> "Unknown"]

\* Result<u32> of the status-query exchange
get_player_count(in) ==
    IF in.count.kind = "response"
    THEN [ok |-> TRUE, count |-> IF in.count.online > 0 THEN in.count.online ELSE 0]
    ELSE [ok |-> FALSE, count |-> 0]

\* mutant of MarkedForStop: the spot request's status is never recognised
MarkedForStop_Never(spot) == FALSE

\* server_util.rs:47-48, the first spot request's status code names a
\* pending stop
MarkedForStop(spot) == spot = "marked-for-stop"

\* mutant of ReturnsEarly: returns early only when no address is known
ReturnsEarly_OnlyWithoutAddress(server_status, public_ip) ==
    ~public_ip

\* mutant of ReturnsEarly: returns early only on a conclusive compute state
ReturnsEarly_OnlyWhenConclusive(server_status, public_ip) ==
    server_status # "Unknown"

\* server_util.rs:56, the early return: the compute state is conclusive
ReturnsEarly(server_status, public_ip) ==
    server_status # "Unknown" \/ ~public_ip

Snapshot(result, status, count, calls) ==
    [result |-> result, server_status |-> status, player_count |-> count, calls |-> calls]

\* mutant of PingedSnapshot: a failed player-count query fails the resolution
PingedSnapshot_CountPropagates(in, calls) ==
    LET server_ping == ping_server(in)
        pc == get_player_count(in)
    IN IF pc.ok
       THEN Snapshot("ok", IF server_ping.ok THEN server_ping.status ELSE "Unknown",
                     pc.count, calls \o <<"ping", "count">>)
       ELSE Snapshot("err", "Unknown", 0, calls \o <<"ping", "count">>)

\* mutant of PingedSnapshot: the player count is queried before the ping
PingedSnapshot_CountFirst(in, calls) ==
    LET server_ping == ping_server(in)
        pinged == IF server_ping.ok THEN server_ping.status ELSE "Unknown"
        pc == get_player_count(in)
    IN Snapshot("ok", pinged, IF pc.ok THEN pc.count ELSE 0,
                calls \o <<"count", "ping">>)

\* server_util.rs:65-77, the instance is up: the ping decides the status
\* (Unknown when it fails) and the status query the player count (0 when it
\* fails)
PingedSnapshot(in, calls) ==
    LET server_ping == ping_server(in)
        pinged == IF server_ping.ok THEN server_ping.status ELSE "Unknown"
        pc == get_player_count(in)
    IN Snapshot("ok", pinged, IF pc.ok THEN pc.count ELSE 0,
                calls \o <<"ping", "count">>)

\* EC2MinecraftServerStatus::get_server_status. result is "ok" (a snapshot),
\* "err" (the Result is Err) or "panic" (an unwrap on None); calls lists the
\* outbound calls in the order they are made.
get_server_status(in) ==
    IF ~get_ec2_instance(in).ok
    THEN Snapshot("err", "Unknown", 0, <<"describe">>)
    ELSE IF in.describe = "nostate"
    THEN Snapshot("err", "Unknown", 0, <<"describe">>)
    ELSE
      LET mapped == MapInstanceState(in.describe) IN
      IF mapped = "Offline" /\ in.spot = "err"
      THEN Snapshot("err", "Unknown", 0, <<"describe", "spot">>)
      ELSE IF mapped = "Offline" /\ in.spot \in {"empty", "nocode"}
      THEN Snapshot("panic", "Unknown", 0, <<"describe", "spot">>)
      ELSE
        LET server_status == IF mapped = "Offline" /\ in.spot # "none" /\ MarkedForStop(in.spot)
                             THEN "ShuttingDown" ELSE mapped
            calls1 == IF mapped = "Offline" THEN <<"describe", "spot">> ELSE <<"describe">>
        IN
        IF ReturnsEarly(server_status, in.public_ip)
        THEN Snapshot("ok", server_status, 0, calls1)
        ELSE PingedSnapshot(in, calls1)

(* ------------------------------------------------------------------ *)
(* State                                                              *)
(* ------------------------------------------------------------------ *)

VARIABLES
    rin,                  \* the answers given to a resolution applied in isolation
    rout,                 \* its result (result "none" before it ran)
    INACTIVITY_COUNTER,   \* main.rs:77, the static mut shared by every tick
    tick,                 \* the bag of tick futures in flight
    idleRun,              \* history: consecutive latest ticks that resolved idle
    zrun,                 \* history: length of the idle run that began at counter 0
    sinceStop,            \* history: idle stores since the last stop command or non-idle store
    usernames_allowed_to_start_server,   \* CLI_ARGS, the allow-list (fixed at startup)
    conn,                 \* the connection the accept loop is serving
    backlog               \* connections established and waiting to be accepted

vars == <<rin, rout, INACTIVITY_COUNTER, tick, idleRun, zrun, sinceStop,
          usernames_allowed_to_start_server, conn, backlog>>

tickVars == <<INACTIVITY_COUNTER, tick, idleRun, zrun, sinceStop>>

connVars == <<usernames_allowed_to_start_server, conn, backlog>>

Min(a, b) == IF a < b THEN a ELSE b

NoSnapshot == Snapshot("none", "Unknown", 0, <<>>)

\* the inputs one resolution can tell apart: an answer the code never asks
\* for (no spot query unless stopped, no ping unless running with an address)
\* is left at its default
RelevantInputs ==
    {in \in ResolveInputs :
        /\ (in.describe # "stopped" => in.spot = "none")
        /\ (in.describe \in {"err", "noinstance", "nostate"} => ~in.public_ip)
        /\ (in.describe \notin {"running", "terminated"} \/ ~in.public_ip
              => in.ping = "refused" /\ in.count = NoCount)}

\* every result a resolution can come back with
Resolutions == {get_server_status(in) : in \in RelevantInputs}

(* ------------------------------------------------------------------ *)
(* status_reporter.rs: the connection handlers, under the accept loop *)
(* of main.rs                                                         *)
(* ------------------------------------------------------------------ *)

\* user names a client may log in with
PlayerNames == {"alice", "bob"}

\* the allow-lists the process may be started with
AllowLists == SUBSET {"*", "alice"}

\* what one read_packet_async can return: Err, Ok(None) on a closed
\* connection, or Ok(Some(packet))
Packet(kind, arg) == [kind |-> kind, arg |-> arg]

ReadOutcome ==
    {Packet("err", ""), Packet("closed", ""), Packet("StatusRequest", ""),
     Packet("StatusPing", ""), Packet("LoginEncryptionResponse", "")}
    \cup {Packet("Handshake", n) : n \in {"Status", "Login"}}
    \cup {Packet("LoginStart", n) : n \in PlayerNames}

\* status_reporter.rs:58-72, the status response for a resolved status
StatusResponse(status) ==
    [kind |-> "StatusResponse", online |-> 0, max |-> 0,
     description |-> <<"&lStatus:&r ", get_motd(status)>>]

LoginDisconnect(message) == [kind |-> "LoginDisconnect", message |-> message]

\* mutant of is_allowed_to_start_server: the allow-list is not consulted
is_allowed_to_start_server_Anyone(players_allowed, player_name) == TRUE

\* status_reporter.rs:102-104
is_allowed_to_start_server(players_allowed, player_name) ==
    "*" \in players_allowed \/ player_name \in players_allowed

\* status_reporter.rs:100-121, the disconnect text of each branch
LoginMessage(server_status, allowed) ==
    CASE server_status = "Offline" /\ allowed
           -> "&lLogin acknowledged: &6Starting server up..."
      [] server_status = "Offline" /\ ~allowed
           -> "&lLogin denied: &4Server is offline"
      [] server_status = "StartingEC2"
           -> "&6&lServer is still spinning up &7&o(give it a few minutes)"
      [] server_status = "StartingUp"
           -> "&6&lServer is still spinning up &7&o(give it a few minutes)"
      [] server_status = "Online"
           -> "&2&lServer is online&r, but DNS hasn't updated yet\n&7&o(wait a minute, then try again)"
      [] server_status = "ShuttingDown"
           -> "&c&lServer is shutting down..."
      [] OTHER
           -> "&b&lServer status isn't known\n&r&o(usually it's just starting up the EC2 instance, but it could be an error)"

\* the accept loop waiting in listener.accept(). pc: listening -> handshake
\* -> status_resolve -> status_read -> finished, or handshake -> login_start
\* -> login_resolve -> finished; crashed when a panic unwinds the loop.
\* branch is the handler chosen by the handshake; calls lists the outbound
\* calls the handler's resolution made, in order; resolved is the outcome of
\* the handler's resolution ("none", "err", "panic" or the status); start
\* is the outcome of the start command ("none" when not issued); sent lists
\* the packets handed to write_packet_async and wrote the outcome of that
\* write ("none" before it); read lists the kinds of the packets
\* read_packet_async returned, in order; silent says the peer has stopped
\* sending for good; result is what handle_connection returned.
NoConn == [pc |-> "listening", branch |-> "none", player_name |-> "", resolved |-> "none",
           calls |-> <<>>, start |-> "none", sent |-> <<>>, wrote |-> "none",
           read |-> <<>>, silent |-> FALSE, result |-> "none"]

Finished(c, result) == [c EXCEPT !.pc = "finished", !.result = result]

\* main.rs:84, a client connects to the bound listener; the connection
\* waits in the backlog until the loop accepts it
Connect ==
    /\ backlog < MaxWaiting
    /\ backlog' = backlog + 1
    /\ UNCHANGED <<rin, rout, tickVars, usernames_allowed_to_start_server, conn>>

\* main.rs:88, the loop is awaiting listener.accept()
AcceptReady == conn.pc = "listening"

\* main.rs:88-90, a waiting connection is accepted and handle_connection
\* awaits its first packet
Accept ==
    /\ AcceptReady
    /\ backlog > 0
    /\ backlog' = backlog - 1
    /\ conn' = [NoConn EXCEPT !.pc = "handshake"]
    /\ UNCHANGED <<rin, rout, tickVars, usernames_allowed_to_start_server>>

\* the handler is awaiting read_packet_async (status_reporter.rs:32, 73, 90)
AwaitingRead == conn.pc \in {"handshake", "status_read", "login_start"}

\* the peer of the connection being served stops sending without closing:
\* the pending read_packet_async never returns (no timeout is set)
PeerStalls ==
    /\ AwaitingRead
    /\ ~conn.silent
    /\ conn' = [conn EXCEPT !.silent = TRUE]
    /\ UNCHANGED <<rin, rout, tickVars, usernames_allowed_to_start_server, backlog>>

\* mutant of ReadHandshake: a first packet that is not a handshake is served
\* as a status exchange
ReadHandshake_AnyFirstPacket(p) ==
    /\ conn.pc = "handshake"
    /\ ~conn.silent
    /\ LET c == [conn EXCEPT !.read = Append(@, p.kind)]
       IN conn' = IF p.kind = "Handshake" /\ p.arg = "Login"
                  THEN [c EXCEPT !.branch = "Login", !.pc = "login_start"]
                  ELSE [c EXCEPT !.branch = "Status", !.pc = "status_resolve"]
    /\ UNCHANGED <<rin, rout, tickVars, usernames_allowed_to_start_server, backlog>>

\* status_reporter.rs:32-44, the first packet arrives (or the read fails, or
\* the peer closes): a handshake selects the branch, anything else is an error
ReadHandshake(p) ==
    /\ conn.pc = "handshake"
    /\ ~conn.silent
    /\ LET c == [conn EXCEPT !.read = Append(@, p.kind)]
       IN conn' = IF p.kind = "Handshake"
                  THEN [c EXCEPT !.branch = p.arg,
                                 !.pc = IF p.arg = "Status" THEN "status_resolve"
                                                            ELSE "login_start"]
                  ELSE Finished(c, "err")
    /\ UNCHANGED <<rin, rout, tickVars, usernames_allowed_to_start_server, backlog>>

\* status_reporter.rs:56-72, handle_status resolves and writes the response
HandleStatusResolved(r, write_ok) ==
    /\ conn.pc = "status_resolve"
    /\ conn' = CASE r.result = "panic" -> [conn EXCEPT !.pc = "crashed", !.resolved = "panic",
                                                       !.calls = r.calls]
                 [] r.result = "err"   -> Finished([conn EXCEPT !.resolved = "err",
                                                                !.calls = r.calls], "err")
                 [] OTHER ->
                      LET c == [conn EXCEPT !.resolved = r.server_status,
                                            !.calls = r.calls,
                                            !.sent = Append(@, StatusResponse(r.server_status))]
                      IN IF write_ok THEN [c EXCEPT !.pc = "status_read", !.wrote = "ok"]
                                     ELSE Finished([c EXCEPT !.wrote = "err"], "err")
    /\ UNCHANGED <<rin, rout, tickVars, usernames_allowed_to_start_server, backlog>>

\* status_reporter.rs:73-82, the one read after the response
ReadAfterStatus(p) ==
    /\ conn.pc = "status_read"
    /\ ~conn.silent
    /\ LET c == [conn EXCEPT !.read = Append(@, p.kind)]
       IN conn' = IF p.kind \in {"closed", "StatusRequest"}
                  THEN Finished(c, "ok")
                  ELSE Finished(c, "err")
    /\ UNCHANGED <<rin, rout, tickVars, usernames_allowed_to_start_server, backlog>>

\* status_reporter.rs:90-97, handle_login reads the login start
ReadLoginStart(p) ==
    /\ conn.pc = "login_start"
    /\ ~conn.silent
    /\ LET c == [conn EXCEPT !.read = Append(@, p.kind)]
       IN conn' = IF p.kind = "LoginStart"
                  THEN [c EXCEPT !.pc = "login_resolve", !.player_name = p.arg]
                  ELSE Finished(c, "err")
    /\ UNCHANGED <<rin, rout, tickVars, usernames_allowed_to_start_server, backlog>>

\* mutant of ShouldStart: an allowed user starts the instance whatever the
\* resolved status
ShouldStart_WheneverAllowed(server_status, allowed) == allowed

\* status_reporter.rs:107, the test that sends the start command
ShouldStart(server_status, allowed) == server_status = "Offline" /\ allowed

\* status_reporter.rs:98-124, handle_login resolves, starts the instance for
\* an allowed user of an Offline server, and writes the disconnect
HandleLoginResolved(r, start_ok, write_ok) ==
    /\ conn.pc = "login_resolve"
    /\ LET allowed == is_allowed_to_start_server(usernames_allowed_to_start_server,
                                                 conn.player_name)
           starts == ShouldStart(r.server_status, allowed)
           c1 == [conn EXCEPT !.resolved = r.server_status,
                              !.calls = r.calls,
                              !.start = IF ~starts THEN "none"
                                        ELSE IF start_ok THEN "ok" ELSE "err"]
           c2 == [c1 EXCEPT !.sent = Append(@, LoginDisconnect(
                                        LoginMessage(r.server_status, allowed)))]
       IN conn' = CASE r.result = "panic" -> [conn EXCEPT !.pc = "crashed", !.resolved = "panic",
                                                          !.calls = r.calls]
                    [] r.result = "err"   -> Finished([conn EXCEPT !.resolved = "err",
                                                                   !.calls = r.calls], "err")
                    [] starts /\ ~start_ok -> Finished(c1, "err")
                    [] OTHER -> IF write_ok THEN Finished([c2 EXCEPT !.wrote = "ok"], "ok")
                                ELSE Finished([c2 EXCEPT !.wrote = "err"], "err")
    /\ UNCHANGED <<rin, rout, tickVars, usernames_allowed_to_start_server, backlog>>

\* main.rs:90-98, the result is logged and the loop accepts again
ServeNext ==
    /\ conn.pc = "finished"
    /\ conn' = NoConn
    /\ UNCHANGED <<rin, rout, tickVars, usernames_allowed_to_start_server, backlog>>

\* the accept loop has no connection
ConnIdle ==
    /\ usernames_allowed_to_start_server = {}
    /\ conn = NoConn
    /\ backlog = 0

ConnInit ==
    /\ usernames_allowed_to_start_server \in AllowLists
    /\ conn = NoConn
    /\ backlog = 0

ConnNext ==
    \/ Connect
    \/ Accept
    \/ PeerStalls
    \/ \E p \in ReadOutcome : ReadHandshake(p)
    \/ \E r \in Resolutions, write_ok \in BOOLEAN : HandleStatusResolved(r, write_ok)
    \/ \E p \in ReadOutcome : ReadAfterStatus(p)
    \/ \E p \in ReadOutcome : ReadLoginStart(p)
    \/ \E r \in Resolutions, start_ok \in BOOLEAN, write_ok \in BOOLEAN :
          HandleLoginResolved(r, start_ok, write_ok)
    \/ ServeNext

(* ------------------------------------------------------------------ *)
(* main.rs: shutdown_server_if_inactive_task, one scheduler tick      *)
(* ------------------------------------------------------------------ *)

\* a tick future spawned by the scheduler, awaiting its resolution.
\* pc: resolving -> (load ->) store -> check -> (stopping ->) done.
\* The locals status and player_count of main.rs:44-45 are last used by the
\* branch of main.rs:48, and idle keeps its outcome; failed says the
\* resolution returned Err (main.rs:41), kept up to the test of main.rs:56
\* and past it by a tick that sends the stop command; rd is the counter value
\* loaded at main.rs:49, seen the one read at main.rs:56 by a tick that sends
\* the stop command.
\* History: full says the tick and the ticks before it made a whole idle run
\* of MINUTES_TO_WAIT_BEFORE_SHUTTING_DOWN; zpos places the tick in the run
\* that began at counter 0 ("early", "last" when it completes the run, "none");
\* fresh says the tick's stop command followed
\* MINUTES_TO_WAIT_BEFORE_SHUTTING_DOWN idle stores made since the stop
\* command before it.
NewTick == [pc |-> "resolving", failed |-> FALSE,
            idle |-> FALSE, rd |-> 0, seen |-> 0, stop |-> "none",
            full |-> FALSE, zpos |-> "none", fresh |-> FALSE]

InFlight == BagToSet(tick)

Without(r) == tick (-) SetToBag({r})

Replaced(r, new) == Without(r) (+) SetToBag({new})

\* main.rs:48, the idle test of a tick
IsIdle(status, player_count) == status = "Online" /\ player_count = 0

\* mutant of Incremented: the increment without the saturation
Incremented_Unsaturated(rd) == rd + 1

\* main.rs:49, the value an idle tick stores, from the value it loaded
Incremented(rd) == Min(rd + 1, MINUTES_TO_WAIT_BEFORE_SHUTTING_DOWN)

\* main.rs:48-53, the value tick t writes to the counter
Stored(t) == IF t.idle THEN Incremented(t.rd) ELSE 0

\* main.rs:56, the test that sends the stop command
ShouldStop(counter) == counter = MINUTES_TO_WAIT_BEFORE_SHUTTING_DOWN

\* the place of the z-th tick of a run that began at counter 0
ZPos(z) ==
    IF z = MINUTES_TO_WAIT_BEFORE_SHUTTING_DOWN THEN "last"
    ELSE IF z >= 1 /\ z < MINUTES_TO_WAIT_BEFORE_SHUTTING_DOWN THEN "early"
    ELSE "none"

\* main.rs:75-79, the scheduler spawns the job's future; it runs to the
\* await of the resolution (main.rs:37-40). A future still running from an
\* earlier minute does not hold the next one back.
TickStart ==
    /\ BagCardinality(tick) < MaxTicks
    /\ tick' = tick (+) SetToBag({NewTick})
    /\ UNCHANGED <<rin, rout, INACTIVITY_COUNTER, idleRun, zrun, sinceStop, connVars>>

\* main.rs:40-48, what a tick takes from the resolution r: whether it
\* panicked, whether it returned Err (it then counts as Unknown/0), and the
\* outcome of the idle test
Observed(r) ==
    LET status == IF r.result = "ok" THEN r.server_status ELSE "Unknown"
        player_count == IF r.result = "ok" THEN r.player_count ELSE 0
    IN [panicked |-> r.result = "panic",
        failed |-> r.result = "err",
        idle |-> IsIdle(status, player_count)]

\* every outcome a tick's resolution can have
Observations == {Observed(r) : r \in Resolutions}

\* main.rs:40-48, the resolution returns with outcome o. A panic inside the
\* resolution ends the spawned future there.
TickResolved(t, o) ==
    /\ t.pc = "resolving"
    /\ LET idle == o.idle
           quiet == \A u \in BagToSet(Without(t)) : u.pc = "resolving"
           run == IF idle THEN Min(idleRun + 1, MINUTES_TO_WAIT_BEFORE_SHUTTING_DOWN) ELSE 0
           z == IF ~idle THEN 0
                ELSE IF zrun = 0
                     THEN (IF INACTIVITY_COUNTER = 0 /\ quiet THEN 1 ELSE 0)
                     ELSE Min(zrun + 1, MINUTES_TO_WAIT_BEFORE_SHUTTING_DOWN + 1)
       IN IF o.panicked
          THEN /\ tick' = Without(t)
               /\ UNCHANGED <<idleRun, zrun>>
          ELSE /\ tick' = Replaced(t, [t EXCEPT !.pc = IF idle THEN "load" ELSE "store",
                                                !.failed = o.failed,
                                                !.idle = idle,
                                                !.full = (run = MINUTES_TO_WAIT_BEFORE_SHUTTING_DOWN),
                                                !.zpos = ZPos(z)])
               /\ idleRun' = run
               /\ zrun' = z
    /\ UNCHANGED <<rin, rout, INACTIVITY_COUNTER, sinceStop, connVars>>

\* main.rs:49, the read of *inactivity_counter in the idle branch
TickLoad(t) ==
    /\ t.pc = "load"
    /\ tick' = Replaced(t, [t EXCEPT !.pc = "store", !.rd = INACTIVITY_COUNTER])
    /\ UNCHANGED <<rin, rout, INACTIVITY_COUNTER, idleRun, zrun, sinceStop, connVars>>

\* main.rs:49 and main.rs:52, the write of *inactivity_counter
TickStore(t) ==
    /\ t.pc = "store"
    /\ INACTIVITY_COUNTER' = Stored(t)
    /\ tick' = Replaced(t, [t EXCEPT !.pc = "check"])
    /\ sinceStop' = IF t.idle THEN Min(sinceStop + 1, MINUTES_TO_WAIT_BEFORE_SHUTTING_DOWN)
                              ELSE 0
    /\ UNCHANGED <<rin, rout, idleRun, zrun, connVars>>

\* main.rs:56-58, the read of *inactivity_counter that decides the stop, and
\* the stop request going out
TickCheck(t) ==
    /\ t.pc = "check"
    /\ tick' = Replaced(t, [t EXCEPT !.seen = IF ShouldStop(INACTIVITY_COUNTER)
                                              THEN INACTIVITY_COUNTER ELSE 0,
                                     !.failed = t.failed /\ ShouldStop(INACTIVITY_COUNTER),
                                     !.rd = 0,
                                     !.pc = IF ShouldStop(INACTIVITY_COUNTER)
                                            THEN "stopping" ELSE "done",
                                     !.stop = IF ShouldStop(INACTIVITY_COUNTER)
                                              THEN "sent" ELSE "none",
                                     !.fresh = /\ ShouldStop(INACTIVITY_COUNTER)
                                               /\ sinceStop = MINUTES_TO_WAIT_BEFORE_SHUTTING_DOWN])
    /\ sinceStop' = IF ShouldStop(INACTIVITY_COUNTER) THEN 0 ELSE sinceStop
    /\ UNCHANGED <<rin, rout, INACTIVITY_COUNTER, idleRun, zrun, connVars>>

\* main.rs:58-63, stop_ec2_instance returns Ok or Err; the counter is reset
TickStopReturns(t, ok) ==
    /\ t.pc = "stopping"
    /\ INACTIVITY_COUNTER' = 0
    /\ tick' = Replaced(t, [t EXCEPT !.pc = "done", !.stop = IF ok THEN "ok" ELSE "err"])
    /\ UNCHANGED <<rin, rout, idleRun, zrun, sinceStop, connVars>>

\* main.rs:65-67, the future completes
TickEnd(t) ==
    /\ t.pc = "done"
    /\ tick' = Without(t)
    /\ UNCHANGED <<rin, rout, INACTIVITY_COUNTER, idleRun, zrun, sinceStop, connVars>>

\* main.rs:77, the counter starts at 0 and no tick has run
TickInit ==
    /\ INACTIVITY_COUNTER = 0
    /\ tick = EmptyBag
    /\ idleRun = 0
    /\ zrun = 0
    /\ sinceStop = 0

\* no resolution is being applied in isolation
ResolveIdle ==
    /\ rin = CHOOSE in \in RelevantInputs : in.describe = "err"
    /\ rout = NoSnapshot

TickNext ==
    \/ TickStart
    \/ \E t \in InFlight, o \in Observations : TickResolved(t, o)
    \/ \E t \in InFlight : TickLoad(t)
    \/ \E t \in InFlight : TickStore(t)
    \/ \E t \in InFlight : TickCheck(t)
    \/ \E t \in InFlight, ok \in BOOLEAN : TickStopReturns(t, ok)
    \/ \E t \in InFlight : TickEnd(t)

InitTick == ResolveIdle /\ TickInit /\ ConnIdle

SpecTick == InitTick /\ [][TickNext]_vars

(* ------------------------------------------------------------------ *)
(* The process                                                        *)
(* ------------------------------------------------------------------ *)

InitConn == ResolveIdle /\ TickInit /\ ConnInit

SpecConn == InitConn /\ [][ConnNext]_vars

\* the whole process: the scheduler's ticks and the accept loop, until a
\* panic in the accept loop ends it
Next == conn.pc # "crashed" /\ (TickNext \/ ConnNext)

Init == InitConn

Spec == Init /\ [][Next]_vars

(* ------------------------------------------------------------------ *)
(* Claims about the inactivity tick                                   *)
(* ------------------------------------------------------------------ *)

\* C1: a stop command is issued in a tick only if that tick and the
\* (inactivity_timer_max - 1) ticks resolved immediately before it each
\* resolved Online with player_count 0; never in a tick that resolved another
\* status or a nonzero player count.
C1_StopOnlyAfterFullIdleRun ==
    \A t \in InFlight : t.stop # "none" => t.idle /\ t.full

\* C2: starting from counter 0, in a run of exactly inactivity_timer_max idle
\* ticks no tick before the last issues a stop command, the last tick has
\* issued one when it ends, and the counter is 0 when it ends (no later tick
\* having resolved yet).
C2_StopExactlyOnLastTickOfRun ==
    \A t \in InFlight :
        /\ t.zpos = "early" => t.stop = "none"
        /\ t.zpos = "last" /\ t.pc = "done"
             => /\ t.stop \in {"ok", "err"}
                /\ zrun = MINUTES_TO_WAIT_BEFORE_SHUTTING_DOWN => INACTIVITY_COUNTER = 0

\* C3: whatever the counter was before, a tick whose resolved status is not
\* Online, or whose player_count is above 0, writes 0 to the counter and
\* issues no stop command.
C3_NonIdleTickResetsAndNeverStops ==
    \A t \in InFlight :
        ~t.idle /\ t.pc # "resolving" =>
            /\ t.pc = "store" => Stored(t) = 0
            /\ t.stop = "none"

\* C4: the inactivity counter is always within 0..inactivity_timer_max, as is
\* every value a tick loads from it or reads back; an idle tick stores its
\* loaded value plus one, saturating at the maximum.
C4_CounterInRange ==
    /\ INACTIVITY_COUNTER \in 0..MINUTES_TO_WAIT_BEFORE_SHUTTING_DOWN
    /\ \A t \in InFlight :
        /\ t.rd \in 0..MINUTES_TO_WAIT_BEFORE_SHUTTING_DOWN
        /\ t.seen \in 0..MINUTES_TO_WAIT_BEFORE_SHUTTING_DOWN
        /\ t.idle /\ t.pc = "store"
             => Incremented(t.rd) = IF t.rd < MINUTES_TO_WAIT_BEFORE_SHUTTING_DOWN
                                    THEN t.rd + 1
                                    ELSE MINUTES_TO_WAIT_BEFORE_SHUTTING_DOWN

\* C4 witness: an idle tick loaded the counter at its maximum while another
\* tick's stop command was in flight, and stored the saturated value
C4_Witness_Saturated ==
    \E t \in InFlight :
        /\ t.idle /\ t.pc = "check"
        /\ t.rd = MINUTES_TO_WAIT_BEFORE_SHUTTING_DOWN
        /\ INACTIVITY_COUNTER = MINUTES_TO_WAIT_BEFORE_SHUTTING_DOWN

\* C18: a tick whose resolution failed is treated as one that resolved
\* Unknown with 0 players: it takes the non-idle branch, writes 0 to the
\* counter whatever the counter held, and issues no stop command.
C18_FailedResolutionResetsAndNeverStops ==
    \A t \in InFlight :
        t.failed =>
            /\ ~t.idle
            /\ t.pc = "store" => Stored(t) = 0
            /\ t.stop = "none"

\* C19: a tick whose stop command failed runs to its end like one whose stop
\* command succeeded, the counter having been reset to 0, and a stop command
\* sent while that tick is still around follows a fresh run of
\* inactivity_timer_max idle ticks.
C19_FailedStopResetsLikeSuccess ==
    /\ \A t \in InFlight : t.stop = "err" => t.pc = "done"
    /\ (\E a \in InFlight : a.stop = "err")
         => /\ \A t \in InFlight : t.stop = "sent" => t.fresh
            /\ sinceStop = 0 /\ (\A t \in InFlight : t.pc \in {"resolving", "done"})
                 => INACTIVITY_COUNTER = 0

\* tick t is between its first access to the counter and its last one:
\* after the load of main.rs:49 or the store of main.rs:52, and before the
\* test of main.rs:56 or, when it sends the stop command, the reset of
\* main.rs:63
InCritical(t) ==
    \/ t.pc = "store" /\ t.idle
    \/ t.pc \in {"check", "stopping"}

\* C20: at any time at most one tick is between its first access to the
\* inactivity counter and its last one.
C20_MutualExclusion ==
    \A t \in InFlight :
        InCritical(t) =>
            /\ CopiesIn(t, tick) = 1
            /\ \A u \in InFlight \ {t} : ~InCritical(u)

\* C25: every stop command follows inactivity_timer_max idle ticks counted
\* since the stop command before it, also when that one is still in flight:
\* no second stop command is sent for the same idle run.
C25_OneStopPerIdleRun ==
    \A t \in InFlight :
        /\ t.stop # "none" => t.fresh
        /\ t.stop = "sent" =>
             /\ CopiesIn(t, tick) = 1
             /\ \A u \in InFlight \ {t} : u.stop # "sent"

(* ------------------------------------------------------------------ *)
(* Claims about the login and status handlers                         *)
(* ------------------------------------------------------------------ *)

\* the login being served resolved Offline for a user the allow-list admits
AllowedOfflineLogin ==
    /\ conn.branch = "Login"
    /\ conn.resolved = "Offline"
    /\ ("*" \in usernames_allowed_to_start_server
          \/ conn.player_name \in usernames_allowed_to_start_server)

\* the login being served resolved Offline for a user the allow-list excludes
DisallowedOfflineLogin ==
    /\ conn.branch = "Login"
    /\ conn.resolved = "Offline"
    /\ "*" \notin usernames_allowed_to_start_server
    /\ conn.player_name \notin usernames_allowed_to_start_server

C6_AllowedLoginStartsAndAcknowledges ==
    AllowedOfflineLogin =>
        /\ conn.start # "none"
        /\ conn.sent = <<LoginDisconnect("&lLogin acknowledged: &6Starting server up...")>>

\* C7: every login that delivered its login-start message and resolved one
\* of the six statuses has been sent exactly one disconnect message when the
\* handler finishes, with the text fixed for that status.
C7_OneDisconnectPerResolvedStatus ==
    conn.branch = "Login" /\ conn.pc = "finished" /\ conn.resolved \in ServerStatus =>
        /\ Len(conn.sent) = 1
        /\ conn.sent[1].kind = "LoginDisconnect"
        /\ conn.sent[1].message \in
             CASE conn.resolved = "Offline" ->
                    {"&lLogin acknowledged: &6Starting server up...",
                     "&lLogin denied: &4Server is offline"}
               [] conn.resolved \in {"StartingEC2", "StartingUp"} ->
                    {"&6&lServer is still spinning up &7&o(give it a few minutes)"}
               [] conn.resolved = "Online" ->
                    {"&2&lServer is online&r, but DNS hasn't updated yet\n&7&o(wait a minute, then try again)"}
               [] conn.resolved = "ShuttingDown" ->
                    {"&c&lServer is shutting down..."}
               [] OTHER ->
                    {"&b&lServer status isn't known\n&r&o(usually it's just starting up the EC2 instance, but it could be an error)"}

\* C8: when an allowed login resolves Offline and the start command returns
\* an error, the client is still sent the "acknowledged, starting up"
\* disconnect message.
C8_StartFailureStillAcknowledged ==
    AllowedOfflineLogin /\ conn.start = "err" =>
        conn.sent = <<LoginDisconnect("&lLogin acknowledged: &6Starting server up...")>>

\* C9: when the resolution fails inside the status or the login handler, the
\* handler answers as for status Unknown: the status response with the
\* Unknown motd, or the login disconnect with the "status unknown" text.
C9_FailedResolutionAnsweredAsUnknown ==
    conn.resolved = "err" =>
        /\ conn.branch = "Status" =>
             conn.sent = <<[kind |-> "StatusResponse", online |-> 0, max |-> 0,
                            description |-> <<"&lStatus:&r ", "Unknown">>]>>
        /\ conn.branch = "Login" =>
             conn.sent = <<LoginDisconnect("&b&lServer status isn't known\n&r&o(usually it's just starting up the EC2 instance, but it could be an error)")>>

\* C16: when the first packet read on a connection is not a handshake (or
\* the read finds the connection closed, or fails), the handler has ended
\* with an error right after that one read, having resolved no status, sent
\* no packet and issued no start command.
C16_FirstMessageMustBeHandshake ==
    Len(conn.read) >= 1 /\ conn.read[1] # "Handshake" =>
        /\ conn.pc = "finished"
        /\ conn.result = "err"
        /\ Len(conn.read) = 1
        /\ conn.resolved = "none"
        /\ conn.sent = <<>>
        /\ conn.start = "none"

\* C16 witness: a client opened with a login start instead of a handshake
\* and the handler returned its error
C16_Witness_LoginStartFirst ==
    /\ conn.read = <<"LoginStart">>
    /\ conn.pc = "finished"
    /\ conn.result = "err"

\* the status connection being served has finished, its response was not
\* lost to a write error, and the packet that followed the handshake, if the
\* handler read one, was a status request
StatusExchangeEnded ==
    /\ conn.pc = "finished"
    /\ conn.branch = "Status"
    /\ conn.wrote # "err"
    /\ Len(conn.read) = 2 => conn.read[2] = "StatusRequest"

\* C17: a connection that sends handshake(next_state = Status) and then a
\* status request is sent exactly one status response, with players 0/0 and
\* the "Status:" label followed by the motd of the resolved status, and the
\* handler ends without error.
C17_StatusRoundTrip ==
    StatusExchangeEnded =>
        /\ conn.resolved \in ServerStatus
        /\ conn.sent = <<[kind |-> "StatusResponse", online |-> 0, max |-> 0,
                          description |-> <<"&lStatus:&r ", get_motd(conn.resolved)>>]>>
        /\ conn.result = "ok"

\* C21: a connection whose peer never sends its next message does not keep
\* a connection that arrived after it from being accepted, and a handler that
\* ended with an error leaves the loop ready to serve the next connection.
C21_ConnectionsIndependent ==
    /\ conn.silent /\ backlog > 0 => AcceptReady
    /\ conn.result = "err" => conn.pc = "finished"

\* the position of call in the calls the handler's resolution made (0 when
\* it was not made)
CallAt(call) ==
    IF \E i \in 1..Len(conn.calls) : conn.calls[i] = call
    THEN CHOOSE i \in 1..Len(conn.calls) : conn.calls[i] = call
    ELSE 0

\* C22: within a connection the handshake is read before any other packet
\* and before the resolution; within the resolution the compute-state lookup
\* comes first, before the pending-stop query, the ping and the player-count
\* query, and the ping before the player-count query.
C22_HandshakeAndLookupFirst ==
    /\ Len(conn.read) >= 2 \/ conn.calls # <<>> => conn.read[1] = "Handshake"
    /\ conn.calls # <<>> => conn.calls[1] = "describe"
    /\ \A i \in 2..Len(conn.calls) : conn.calls[i] # "describe"
    /\ CallAt("count") > 0 => CallAt("ping") > 0 /\ CallAt("ping") < CallAt("count")

\* C22 witness: a login connection read its handshake, then its login start,
\* and its resolution made the lookup, the ping and the player-count query
C22_Witness_PingedLogin ==
    /\ conn.read = <<"Handshake", "LoginStart">>
    /\ conn.calls = <<"describe", "ping", "count">>
    /\ conn.pc = "finished"

\* C23: after the status response the responder reads at most one more
\* packet: a status request is accepted, a status ping is accepted and
\* answered with a pong, a closed connection ends the exchange without error,
\* and anything else ends the handler with an error.
C23_OneMoreReadAfterStatus ==
    conn.branch = "Status" /\ Len(conn.read) >= 2 =>
        /\ Len(conn.read) = 2
        /\ conn.pc = "finished"
        /\ conn.read[2] \in {"StatusRequest", "closed"} => conn.result = "ok"
        /\ conn.read[2] = "StatusPing"
             => /\ conn.result = "ok"
                /\ Len(conn.sent) = 2
                /\ conn.sent[2].kind = "StatusPong"
        /\ conn.read[2] \notin {"StatusRequest", "StatusPing", "closed"} => conn.result = "err"

\* C24: a start command is issued only by a login that resolved Offline; a
\* login that resolved a stopped instance marked for stop (ShuttingDown after
\* the lookup and the pending-stop query) issues no start command and is sent
\* the "server is shutting down" message.
C24_StartOnlyWhenOffline ==
    /\ conn.start # "none" => conn.branch = "Login" /\ conn.resolved = "Offline"
    /\ conn.branch = "Login" /\ conn.resolved = "ShuttingDown"
         /\ conn.calls = <<"describe", "spot">>
         => /\ conn.start = "none"
            /\ conn.sent = <<LoginDisconnect("&c&lServer is shutting down...")>>

\* C24 witness: alice, on the allow-list, logged in while the stopped
\* instance was marked for stop and was told the server is shutting down
C24_Witness_AllowedDuringPendingStop ==
    /\ conn.branch = "Login"
    /\ conn.player_name = "alice"
    /\ usernames_allowed_to_start_server = {"alice"}
    /\ conn.resolved = "ShuttingDown"
    /\ conn.calls = <<"describe", "spot">>
    /\ conn.start = "none"
    /\ conn.pc = "finished"
    /\ conn.result = "ok"

(* ------------------------------------------------------------------ *)
(* Claims about the resolver                                          *)
(* ------------------------------------------------------------------ *)

\* the resolution applied in isolation made neither the protocol ping nor
\* the player-count query
NoPingNoCount ==
    \A i \in 1..Len(rout.calls) : rout.calls[i] \notin {"ping", "count"}

\* C10 as claimed: for every lifecycle state in {stopped, stopping, pending,
\* shutting-down} the snapshot resolve returns has the state's fixed status
\* (stopped -> Offline) and player_count 0, and neither the protocol ping nor
\* the player-count query was made.
C10_FixedStatusWithoutPing ==
    rout.result = "ok" /\ rin.describe \in {"stopped", "stopping", "pending", "shutting-down"} =>
        /\ rout.server_status = CASE rin.describe = "stopped"  -> "Offline"
                                  [] rin.describe = "stopping" -> "ShuttingDown"
                                  [] rin.describe = "pending"  -> "StartingEC2"
                                  [] OTHER                     -> "ShuttingDown"
        /\ rout.player_count = 0
        /\ NoPingNoCount

\* C10 as amended: stopping, pending and shutting-down resolve to their fixed
\* status with player_count 0; stopped resolves by the pending-stop query:
\* the resolution fails when the query fails, aborts when it lists no request
\* or one without a status code, and otherwise returns ShuttingDown for a
\* marked-for-stop request and Offline for any other answer, with
\* player_count 0. In all four states no ping and no player-count query is
\* made, with or without a public address.
C10_FixedStatusUnlessPendingStop ==
    rout.result # "none" /\ rin.describe \in {"stopped", "stopping", "pending", "shutting-down"} =>
        /\ NoPingNoCount
        /\ rout.player_count = 0
        /\ rin.describe = "stopping" => rout.result = "ok" /\ rout.server_status = "ShuttingDown"
        /\ rin.describe = "pending" => rout.result = "ok" /\ rout.server_status = "StartingEC2"
        /\ rin.describe = "shutting-down" => rout.result = "ok" /\ rout.server_status = "ShuttingDown"
        /\ rin.describe = "stopped" =>
             CASE rin.spot = "err" -> rout.result = "err"
               [] rin.spot \in {"empty", "nocode"} -> rout.result = "panic"
               [] rin.spot = "marked-for-stop" ->
                    rout.result = "ok" /\ rout.server_status = "ShuttingDown"
               [] OTHER -> rout.result = "ok" /\ rout.server_status = "Offline"

\* C10 witness: a pending instance with a public address, whose server would
\* answer a ping, resolved to StartingEC2 after the describe call alone
C10_Witness_PendingWithAddress ==
    /\ rin.describe = "pending"
    /\ rin.public_ip
    /\ rin.ping = "pong"
    /\ rout.result = "ok"
    /\ rout.server_status = "StartingEC2"
    /\ rout.calls = <<"describe">>

\* the resolution applied in isolation made the pending-stop query
SpotQueried ==
    \E i \in 1..Len(rout.calls) : rout.calls[i] = "spot"

\* C11: when the compute state maps to Offline (stopped) and the spot request
\* is marked for stop, resolve returns ShuttingDown and not Offline; the
\* pending-stop query is made only when the mapped status is Offline.
C11_PendingStopOverridesOffline ==
    rout.result # "none" =>
        /\ rin.describe = "stopped" /\ rin.spot = "marked-for-stop"
             => rout.result = "ok" /\ rout.server_status = "ShuttingDown"
        /\ SpotQueried => rin.describe = "stopped"

\* C11 witness: a stopped instance whose spot request is marked for stop
\* resolved to ShuttingDown after the describe call and the spot query
C11_Witness_MarkedForStop ==
    /\ rin.describe = "stopped"
    /\ rin.spot = "marked-for-stop"
    /\ rout.result = "ok"
    /\ rout.server_status = "ShuttingDown"
    /\ rout.calls = <<"describe", "spot">>

\* a control-plane call failed, or the instance or its state field is missing
ControlPlaneFailure ==
    \/ rin.describe \in {"err", "noinstance", "nostate"}
    \/ rin.describe = "stopped" /\ rin.spot = "err"

\* C12: resolve fails only when a control-plane call fails or the instance
\* or its state field is missing, and returns a snapshot in every other case;
\* a stopped instance whose pending-stop query lists no request resolves to
\* Offline.
C12_FailsOnlyOnControlPlaneFailure ==
    rout.result # "none" =>
        /\ rout.result = "ok" <=> ~ControlPlaneFailure
        /\ rin.describe = "stopped" /\ rin.spot = "empty"
             => rout.result = "ok" /\ rout.server_status = "Offline"

\* the mapped status is Unknown and a public address is present
PingCase ==
    /\ rin.describe \in {"running", "terminated"}
    /\ rin.public_ip

\* C13 as claimed: in the ping case the ping outcome decides the status:
\* refused -> StartingEC2; the protocol connection, the handshake write, the
\* ping write or the read fails -> StartingUp; pong -> Online; any other
\* reply -> Unknown.
C13_PingFailuresAreStartingUp ==
    rout.result # "none" /\ PingCase =>
        /\ rout.result = "ok"
        /\ rout.server_status =
             CASE rin.ping = "refused" -> "StartingEC2"
               [] rin.ping \in {"noconn", "hs_write_err", "ping_write_err", "read_err"}
                                       -> "StartingUp"
               [] rin.ping = "pong"    -> "Online"
               [] OTHER                -> "Unknown"

\* C13 as amended: refused -> StartingEC2; the protocol connection fails ->
\* StartingUp; pong -> Online; a failed handshake write, ping write or read,
\* a connection closed without a reply, or any other reply -> Unknown.
C13_PingOutcomeDecidesStatus ==
    rout.result # "none" /\ PingCase =>
        /\ rout.result = "ok"
        /\ rout.server_status =
             CASE rin.ping = "refused" -> "StartingEC2"
               [] rin.ping = "noconn"  -> "StartingUp"
               [] rin.ping = "pong"    -> "Online"
               [] OTHER                -> "Unknown"

\* C13 witness: the TCP connect succeeded, the protocol connection failed,
\* and the running instance resolved to StartingUp
C13_Witness_NoProtocolConnection ==
    /\ PingCase
    /\ rin.describe = "running"
    /\ rin.ping = "noconn"
    /\ rout.result = "ok"
    /\ rout.server_status = "StartingUp"
    /\ rout.calls = <<"describe", "ping", "count">>

\* C14: when the mapped status is Unknown and no public address is present,
\* resolve returns Unknown with player_count 0 and makes neither the ping nor
\* the player-count query.
C14_UnknownWithoutAddress ==
    rout.result # "none" /\ rin.describe \in {"running", "terminated"} /\ ~rin.public_ip =>
        /\ rout.result = "ok"
        /\ rout.server_status = "Unknown"
        /\ rout.player_count = 0
        /\ NoPingNoCount

\* C14 witness: a running instance without a public address, whose server
\* would have answered the ping and reported players, resolved to Unknown/0
\* after the describe call alone
C14_Witness_RunningWithoutAddress ==
    /\ rin.describe = "running"
    /\ ~rin.public_ip
    /\ rin.ping = "pong"
    /\ rin.count = [kind |-> "response", online |-> MaxOnline]
    /\ rout.result = "ok"
    /\ rout.server_status = "Unknown"
    /\ rout.calls = <<"describe">>

\* C15: a failed player-count query (connect, write or read failure, closed
\* connection, or a reply that is not a status response) does not fail the
\* resolution: the snapshot carries the status the ping decided and
\* player_count 0.
C15_CountFailureYieldsZero ==
    rout.result # "none" /\ PingCase /\ rin.count.kind \in CountFailure =>
        /\ rout.result = "ok"
        /\ rout.player_count = 0
        /\ rout.server_status =
             CASE rin.ping = "refused" -> "StartingEC2"
               [] rin.ping = "noconn"  -> "StartingUp"
               [] rin.ping = "pong"    -> "Online"
               [] OTHER                -> "Unknown"

\* C15 witness: the ping got its pong, the status query got a reply that is
\* not a status response, and the resolution returned Online with 0 players
C15_Witness_BadReplyOnline ==
    /\ PingCase
    /\ rin.ping = "pong"
    /\ rin.count.kind = "bad_reply"
    /\ rout.result = "ok"
    /\ rout.server_status = "Online"
    /\ rout.player_count = 0
    /\ rout.calls = <<"describe", "ping", "count">>

(* ------------------------------------------------------------------ *)
(* The resolver applied to every combination of answers               *)
(* ------------------------------------------------------------------ *)

ResolveInit ==
    /\ rin \in ResolveInputs
    /\ rout = NoSnapshot

Resolve ==
    /\ rout.result = "none"
    /\ rout' = get_server_status(rin)
    /\ UNCHANGED <<rin, tickVars, connVars>>

ResolveNext == Resolve

InitResolve == ResolveInit /\ TickInit /\ ConnIdle

SpecResolve == InitResolve /\ [][ResolveNext]_vars

====
